---- MODULE Spec2Model ----
(***************************************************************************)
(* Model of the RFID in/out attendance sketch (rfid_attendance_system.ino).*)
(* Arduino Strings are sequences of one-character strings, the globals of  *)
(* the sketch are the variables, setup() and the four stages of loop()     *)
(* are the actions.  Times are in milliseconds (millis) and seconds (RTC). *)
(***************************************************************************)
EXTENDS Integers, Sequences, FiniteSets, TLC

VARIABLES
    pc,            \* position of the sketch: "setup", "loop", "pollIn", "pollOut", "reset"
    millis,        \* the millisecond clock, advanced by every delay()
    rtcState,      \* what rtc.begin()/rtc.lostPower() reported: "ok", "lostPower", "absent"
    now,           \* loop(): DateTime now (seconds)
    currentTime,   \* loop(): unsigned long currentTime
    lastScanTime,
    lastMinute,
    isInside,
    entryTimes,
    inReadyMode,
    errorLog,
    errorCount,
    uidByte,       \* rfidIn.uid / rfidOut.uid: the bytes of the card read last
    uid,           \* loop(): String uid of the card read last
    personIndex,   \* loop(): int personIndex of the card read last
    outcome,       \* the branch of loop() the card read last took
    timeSpent,     \* loop(): timeSpentSeconds of the last normal exit
    lcd,           \* the two lines of the display
    feedback,      \* the tone and blink functions called for the card read last
    serial,        \* the last block written to Serial
    appended,      \* history: every entry logError has stored, in order
    history        \* history of each slot: its normal entries and exits counted,
                   \* and the branch its card took last

vars == << pc, millis, rtcState, now, currentTime, lastScanTime, lastMinute,
           isInside, entryTimes, inReadyMode, errorLog, errorCount, uidByte,
           uid, personIndex, outcome, timeSpent, lcd, feedback, serial, appended,
           history >>

(***************************************************************************)
(* Bounds of the model.                                                    *)
(***************************************************************************)
\* the clock is read at multiples of TimeStep up to MaxTicks * TimeStep
TimeStep == 500
MaxTicks == 17
\* the cards that are presented to the readers: CardPool[1 .. MaxCard]
MaxCard == 3
\* SpecLog appends at most MaxAppends entries
MaxAppends == 15
\* SpecLogLate starts LateAppends appends before the counter is at INT_MAX
LateAppends == 4
\* SpecLive has cards at the readers in the iterations that read the clock up
\* to LiveTicks * TimeStep
LiveTicks == 10
\* the first second the RTC reports is RtcEpoch (the minute changes at 60)
RtcEpoch == 55

(***************************************************************************)
(* Program constants.                                                      *)
(***************************************************************************)
DEBOUNCE_TIME == 1500
DISPLAY_TIME == 3000
NUM_KNOWN_CARDS == 3
MAX_ERROR_LOG == 10
UID_PREFIX == 8

Min(a, b) == IF a < b THEN a ELSE b

(***************************************************************************)
(* Strings.                                                                *)
(***************************************************************************)
HexDigits == << "0", "1", "2", "3", "4", "5", "6", "7",
                "8", "9", "a", "b", "c", "d", "e", "f" >>

\* String(b, HEX): lower-case hexadecimal without a leading zero
StringHEX(b) ==
    IF b < 16 THEN << HexDigits[b + 1] >>
    ELSE << HexDigits[(b \div 16) + 1], HexDigits[(b % 16) + 1] >>

UpperChar(c) ==
    CASE c = "a" -> "A" [] c = "b" -> "B" [] c = "c" -> "C"
      [] c = "d" -> "D" [] c = "e" -> "E" [] c = "f" -> "F"
      [] c = "x" -> "X"
      [] OTHER -> c

\* String::toUpperCase
toUpperCase(s) == [i \in 1..Len(s) |-> UpperChar(s[i])]

\* String::substring(from, to) with from = 0: the first `to` characters,
\* or the whole string when it is shorter
substring0(s, to) == SubSeq(s, 1, Min(to, Len(s)))

knownUIDs == [i \in 0..(NUM_KNOWN_CARDS - 1) |->
    CASE i = 0 -> << "5", "A", "D", "A", "9", "C", "8", "0" >>
      [] i = 1 -> << "5", "A", "A", "C", "5", "1", "8", "0" >>
      [] i = 2 -> << "9", "3", "D", "0", "1", "4", "0", "E" >>]

knownNames == [i \in 0..(NUM_KNOWN_CARDS - 1) |->
    CASE i = 0 -> "Andrei" [] i = 1 -> "Bogdan" [] i = 2 -> "Denis"]

RECURSIVE getUIDFrom(_, _)
getUIDFrom(buffer, i) ==
    IF i > Len(buffer) THEN << >>
    ELSE (IF buffer[i] < 16 THEN << "0" >> ELSE << >>)
         \o StringHEX(buffer[i]) \o getUIDFrom(buffer, i + 1)

\* getUID: the bytes in hexadecimal, two characters a byte, upper-cased
getUID(buffer) == toUpperCase(getUIDFrom(buffer, 1))

RECURSIVE findFrom(_, _)
findFrom(shortUID, i) ==
    IF i >= NUM_KNOWN_CARDS THEN -1
    ELSE IF shortUID = knownUIDs[i] THEN i
    ELSE findFrom(shortUID, i + 1)

\* findPersonByUID without the substring: the whole argument is compared
findPersonByWholeUID(u) == findFrom(u, 0)

\* findPersonByUID: index of the first known UID equal to the first eight
\* characters of the argument, -1 when there is none
findPersonByUID(u) == findFrom(substring0(u, UID_PREFIX), 0)

(***************************************************************************)
(* Clocks and formats.                                                     *)
(***************************************************************************)
\* what rtc.now() returns when no RTC answered rtc.begin(): a fixed reading
RtcAbsent == 1

\* rtc.now() at millisecond m, as seconds
RtcNow(state, m) ==
    IF state = "absent" THEN RtcAbsent ELSE RtcEpoch + (m \div 1000)

Second(t) == t % 60
Minute(t) == (t \div 60) % 60
Hour(t) == (t \div 3600) % 24
Day(t) == t \div 86400

formatTimeHM(t) == << "HH:MM", Hour(t), Minute(t) >>
formatTime(t) == << "HH:MM:SS", Hour(t), Minute(t), Second(t) >>
formatTimeSpent(seconds) ==
    << "Time: ", seconds \div 3600, (seconds % 3600) \div 60, seconds % 60 >>
formatDateTime(t) == << "Y/M/D H:M:S", Day(t), Hour(t), Minute(t), Second(t) >>

(***************************************************************************)
(* Tones and blinks: how long each blocks the sketch.                      *)
(***************************************************************************)
Duration(f) ==
    CASE f = "startupBeep" -> 2 * 150 + 200
      [] f = "successBeep" -> 100 + 150
      [] f = "exitBeep" -> 100 + 150
      [] f = "unknownBeep" -> 200
      [] f = "errorBeep" -> 3 * 250
      [] f = "warningBeep" -> 2 * 150
      [] f = "alarmBeep" -> 5 * (120 + 120 + 120)
      [] f = "blinkGreen" -> 3 * (200 + 200)
      [] f = "blinkRed" -> 5 * (200 + 200)

RECURSIVE TotalDuration(_)
TotalDuration(fs) ==
    IF fs = << >> THEN 0 ELSE Duration(Head(fs)) + TotalDuration(Tail(fs))

POLL_DELAY == 20
LOOP_DELAY == 10
SETUP_DELAY == 2000

(***************************************************************************)
(* The error log.                                                          *)
(***************************************************************************)
EmptyString == << >>

\* logError: the entry written at errorCount % MAX_ERROR_LOG
LogEntry(t, errorMessage) == << formatDateTime(t), " - ", errorMessage >>

\* the int of the ATmega328P has 16 bits
INT_MAX == 32767
INT_MIN == -32768

\* the % of C++ truncates towards zero
LogSlot(count) ==
    IF count >= 0 THEN count % MAX_ERROR_LOG ELSE -((-count) % MAX_ERROR_LOG)

logErrorLog(log, count, t, errorMessage) ==
    [log EXCEPT ![LogSlot(count)] = LogEntry(t, errorMessage)]

\* errorCount++: the values the counter may have afterwards.  Incrementing
\* INT_MAX is undefined: the 16-bit addition leaves INT_MIN, and the language
\* allows any other int, of which the model takes zero and INT_MAX.
logErrorCount(count) ==
    IF count < INT_MAX THEN {count + 1} ELSE {INT_MIN, 0, INT_MAX}

\* printErrorLog that always starts at the first element of the array
printStartZero(count) == 0

\* printErrorLog: the lines between the two rulers
printStart(count) == IF count > MAX_ERROR_LOG THEN count % MAX_ERROR_LOG ELSE 0

printErrorLog(log, count) ==
    [i \in 1..Min(count, MAX_ERROR_LOG) |->
        log[(printStart(count) + (i - 1)) % MAX_ERROR_LOG]]

(***************************************************************************)
(* The cards and the clock readings of the model.                          *)
(***************************************************************************)
\* uidByte of the cards: Andrei's, a card nobody owns, Bogdan's, Denis's,
\* and a seven-byte card whose first four bytes are Andrei's
CardPool == << << 90, 218, 156, 128 >>,
               << 222, 173, 190, 239 >>,
               << 90, 172, 81, 128 >>,
               << 147, 208, 20, 14 >>,
               << 90, 218, 156, 128, 1, 2, 3 >> >>

Cards == {CardPool[i] : i \in 1..Min(MaxCard, Len(CardPool))}

\* PICC_IsNewCardPresent() && PICC_ReadCardSerial() failed
NoCard == << >>

RtcStates == {"ok", "lostPower", "absent"}

TimeGrid == {k * TimeStep : k \in 0..MaxTicks}

\* The values millis() may return at the start of loop(): the clock is at
\* least at `millis`; the iterations in which nothing happens are folded
\* into one that ends on the grid, and after tones and blinks the clock may
\* also be read with no time lost.
ReadPoints ==
    {t \in TimeGrid : t >= millis}
    \cup (IF millis - currentTime > POLL_DELAY + LOOP_DELAY
             /\ millis <= MaxTicks * TimeStep
          THEN {millis} ELSE {})

(***************************************************************************)
(* The state after the initialisers of the globals.                        *)
(***************************************************************************)
Globals ==
    /\ millis = 0
    /\ rtcState \in RtcStates
    /\ now = 0
    /\ currentTime = 0
    /\ lastScanTime = 0
    /\ lastMinute = -1
    /\ isInside = [i \in 0..(NUM_KNOWN_CARDS - 1) |-> FALSE]
    /\ entryTimes = [i \in 0..(NUM_KNOWN_CARDS - 1) |-> 0]
    /\ inReadyMode = FALSE
    /\ errorLog = [i \in 0..(MAX_ERROR_LOG - 1) |-> EmptyString]
    /\ errorCount = 0
    /\ uidByte = << >>
    /\ uid = << >>
    /\ personIndex = -1
    /\ outcome = "none"
    /\ timeSpent = 0
    /\ lcd = << << >>, << >> >>
    /\ feedback = << >>
    /\ serial = << >>
    /\ appended = << >>
    /\ history = [entry |-> [i \in 0..(NUM_KNOWN_CARDS - 1) |-> 0],
                  exit |-> [i \in 0..(NUM_KNOWN_CARDS - 1) |-> 0],
                  last |-> [i \in 0..(NUM_KNOWN_CARDS - 1) |-> "none"]]

Init == pc = "setup" /\ Globals

\* showReadyScreen at millisecond m: the display it leaves
ReadyScreen(m) == << << "Ready to Scan" >>, formatTimeHM(RtcNow(rtcState, m)) >>

(***************************************************************************)
(* setup()                                                                 *)
(***************************************************************************)
\* a setup() that only sounds its tones
SetupFeedbackNoBlink(state) ==
    (IF state = "absent" THEN << "errorBeep" >>
     ELSE IF state = "lostPower" THEN << "warningBeep" >>
     ELSE << >>) \o << "startupBeep" >>

\* the tones and blinks of setup()
SetupFeedback(state) ==
    (IF state = "absent" THEN << "errorBeep", "blinkRed" >>
     ELSE IF state = "lostPower" THEN << "warningBeep", "blinkRed" >>
     ELSE << >>) \o << "startupBeep" >>

Setup ==
    /\ pc = "setup"
    /\ LET fb == SetupFeedback(rtcState)
           logAt == 100 + TotalDuration(fb) - Duration("startupBeep")
           msg == IF rtcState = "absent" THEN << "RTC not found" >>
                  ELSE << "RTC lost power" >>
           end == 100 + TotalDuration(fb) + SETUP_DELAY
                  + (IF rtcState = "absent" THEN SETUP_DELAY ELSE 0)
       IN /\ feedback' = fb
          /\ IF rtcState = "ok"
             THEN UNCHANGED << errorLog, errorCount, appended >>
             ELSE /\ errorLog' = logErrorLog(errorLog, errorCount,
                                             RtcNow(rtcState, logAt), msg)
                  /\ errorCount' \in logErrorCount(errorCount)
                  /\ appended' = Append(appended,
                                        LogEntry(RtcNow(rtcState, logAt), msg))
          /\ isInside' = [i \in 0..(NUM_KNOWN_CARDS - 1) |-> FALSE]
          /\ entryTimes' = [i \in 0..(NUM_KNOWN_CARDS - 1) |-> 0]
          /\ millis' = end
          /\ lcd' = ReadyScreen(end)
          /\ lastMinute' = Minute(RtcNow(rtcState, end))
          /\ inReadyMode' = TRUE
          /\ serial' = << "System ready!" >>
    /\ pc' = "loop"
    /\ UNCHANGED << rtcState, now, currentTime, lastScanTime, uidByte, uid,
                    personIndex, outcome, timeSpent, history >>

(***************************************************************************)
(* loop(): reading the clocks, the minute update and the debounce check    *)
(***************************************************************************)
\* a debounce check that waits for the display time
GateOpenDisplayTime(t, last) == t - last >= DISPLAY_TIME

\* a debounce check against the clock instead of the time since the last scan
GateOpenAbsolute(t, last) == t >= DEBOUNCE_TIME

GateOpen(t, last) == t - last >= DEBOUNCE_TIME

\* a minute update that does not look at inReadyMode
MinuteChangedAnyMode(ready, t, last) == Minute(t) # last

\* the test of the minute update
MinuteChanged(ready, t, last) == ready /\ Minute(t) # last

ReadClocks(points) ==
    /\ pc = "loop"
    /\ \E t \in points :
          /\ millis' = t
          /\ currentTime' = t
          /\ now' = RtcNow(rtcState, t)
          /\ IF MinuteChanged(inReadyMode, RtcNow(rtcState, t), lastMinute)
             THEN /\ lcd' = << lcd[1], formatTimeHM(RtcNow(rtcState, t)) >>
                  /\ lastMinute' = Minute(RtcNow(rtcState, t))
             ELSE UNCHANGED << lcd, lastMinute >>
          /\ pc' = IF GateOpen(t, lastScanTime) THEN "pollIn" ELSE "reset"
    /\ UNCHANGED << rtcState, lastScanTime, isInside, entryTimes, inReadyMode,
                    errorLog, errorCount, uidByte, uid, personIndex, outcome,
                    timeSpent, feedback, serial, appended, history >>

LoopStart == ReadClocks(ReadPoints)

(***************************************************************************)
(* loop(): the branches a card takes at a reader                           *)
(***************************************************************************)
EntranceOutcome(inside, idx) ==
    IF idx >= 0
    THEN (IF inside[idx] THEN "DoubleEntry" ELSE "ValidEntry")
    ELSE "UnknownCredential"

\* an exit reader that does not look at the inside flag
ExitOutcomeUnchecked(inside, idx) ==
    IF idx >= 0 THEN "ValidExit" ELSE "UnknownCredential"

ExitOutcome(inside, idx) ==
    IF idx >= 0
    THEN (IF ~inside[idx] THEN "InvalidExit" ELSE "ValidExit")
    ELSE "UnknownCredential"

\* an invalid-exit branch that copies the tone and blink of the normal exit
OutcomeFeedbackExitCopied(o) ==
    CASE o = "ValidEntry" -> << "successBeep", "blinkGreen" >>
      [] o = "ValidExit" -> << "exitBeep", "blinkGreen" >>
      [] o = "UnknownCredential" -> << "unknownBeep", "blinkRed" >>
      [] o = "DoubleEntry" -> << "alarmBeep", "blinkRed" >>
      [] o = "InvalidExit" -> << "exitBeep", "blinkGreen" >>

\* the tone and the blink of each branch
OutcomeFeedback(o) ==
    CASE o = "ValidEntry" -> << "successBeep", "blinkGreen" >>
      [] o = "ValidExit" -> << "exitBeep", "blinkGreen" >>
      [] o = "UnknownCredential" -> << "unknownBeep", "blinkRed" >>
      [] o = "DoubleEntry" -> << "alarmBeep", "blinkRed" >>
      [] o = "InvalidExit" -> << "alarmBeep", "blinkRed" >>

\* logError called by the alarms only
LogsErrorAlarmsOnly(o) == o \in {"DoubleEntry", "InvalidExit"}

\* the branches that call logError
LogsError(o) == o \in {"UnknownCredential", "DoubleEntry", "InvalidExit"}

\* how long after the card was read logError reads the RTC: the alarms log
\* first and sound afterwards, an unknown card sounds first
LogDelay(o) == IF o = "UnknownCredential" THEN TotalDuration(OutcomeFeedback(o)) ELSE 0

\* an entrance that records the entry time in the double-entry branch too
EntranceTimesOverwrite(times, o, idx, t) ==
    IF o \in {"ValidEntry", "DoubleEntry"} THEN [times EXCEPT ![idx] = t] ELSE times

\* the presence arrays after a card took branch o at the entrance
EntranceTimes(times, o, idx, t) ==
    IF o = "ValidEntry" THEN [times EXCEPT ![idx] = t] ELSE times

\* an entrance whose double-entry alarm resets the inside flag
EntranceInsideAlarmClears(inside, o, idx) ==
    CASE o = "ValidEntry" -> [inside EXCEPT ![idx] = TRUE]
      [] o = "DoubleEntry" -> [inside EXCEPT ![idx] = FALSE]
      [] OTHER -> inside

EntranceInside(inside, o, idx) ==
    IF o = "ValidEntry" THEN [inside EXCEPT ![idx] = TRUE] ELSE inside

\* the presence arrays after a card took branch o at the exit
ExitTimes(times, o, idx) == times

\* an exit that flips the flag in the invalid-exit branch too
ExitInsideToggle(inside, o, idx) ==
    IF o \in {"ValidExit", "InvalidExit"}
    THEN [inside EXCEPT ![idx] = ~inside[idx]] ELSE inside

\* an exit that resets the flag of every slot
ExitInsideClearsAll(inside, o, idx) ==
    IF o = "ValidExit" THEN [i \in DOMAIN inside |-> FALSE] ELSE inside

ExitInside(inside, o, idx) ==
    IF o = "ValidExit" THEN [inside EXCEPT ![idx] = FALSE] ELSE inside

\* the subtraction the wrong way round
TimeSpentSwapped(t, entry) == entry - t

TimeSpentSeconds(t, entry) == t - entry

\* the error message of branch o
ErrorMessage(lane, o, idx, u) ==
    CASE o = "DoubleEntry" -> << "Double entry: ", knownNames[idx] >>
      [] o = "InvalidExit" -> << "Invalid exit: ", knownNames[idx] >>
      [] o = "UnknownCredential" /\ lane = "ENTRANCE" -> << "Unknown card: ", u >>
      [] o = "UnknownCredential" /\ lane = "EXIT" -> << "Unknown card at exit: ", u >>

\* the display of branch o
OutcomeScreen(lane, o, idx, u, t, spent) ==
    CASE o = "ValidEntry" -> << << "Hello ", knownNames[idx] >>, formatTime(t) >>
      [] o = "ValidExit" -> << << "Bye ", knownNames[idx] >>, formatTimeSpent(spent) >>
      [] o = "DoubleEntry" -> << << "ERROR: Already" >>, << "inside - ", knownNames[idx] >> >>
      [] o = "InvalidExit" -> << << "ERROR: Not" >>, << "inside - ", knownNames[idx] >> >>
      [] o = "UnknownCredential" /\ lane = "ENTRANCE" ->
            << << "ENTER: ", substring0(u, UID_PREFIX) >>, formatTime(t) >>
      [] o = "UnknownCredential" /\ lane = "EXIT" ->
            << << "EXIT: ", substring0(u, UID_PREFIX) >>, formatTime(t) >>

\* the trace line of a card
TraceLine(lane, o, idx, u, t) ==
    << lane, " - Card: ", u, IF idx >= 0 THEN knownNames[idx] ELSE "",
       o, " at ", formatDateTime(t) >>

\* the history of the slots after a card took branch o
Recorded(h, o, idx) ==
    CASE o = "ValidEntry" -> [h EXCEPT !.entry[idx] = @ + 1, !.last[idx] = o]
      [] o = "ValidExit" -> [h EXCEPT !.exit[idx] = @ + 1, !.last[idx] = o]
      [] o \in {"DoubleEntry", "InvalidExit"} -> [h EXCEPT !.last[idx] = o]
      [] OTHER -> h

\* a last scan time that only the normal entry and the normal exit update
ScanTimeValidOnly(o, t, last) ==
    IF o \in {"ValidEntry", "ValidExit"} THEN t ELSE last

\* lastScanTime after a card took branch o in an iteration that read the
\* clock at t
ScanTime(o, t, last) == t

\* what both readers do with a card that took branch o
Dispatch(lane, card, o, idx, u, spent) ==
    /\ inReadyMode' = FALSE
    /\ history' = Recorded(history, o, idx)
    /\ uidByte' = card
    /\ uid' = u
    /\ personIndex' = idx
    /\ outcome' = o
    /\ feedback' = OutcomeFeedback(o)
    /\ lcd' = OutcomeScreen(lane, o, idx, u, now, spent)
    /\ serial' = TraceLine(lane, o, idx, u, now)
    /\ IF LogsError(o)
       THEN LET at == RtcNow(rtcState, millis + LogDelay(o))
                msg == ErrorMessage(lane, o, idx, u)
            IN /\ errorLog' = logErrorLog(errorLog, errorCount, at, msg)
               /\ errorCount' \in logErrorCount(errorCount)
               /\ appended' = Append(appended, LogEntry(at, msg))
       ELSE UNCHANGED << errorLog, errorCount, appended >>
    /\ lastScanTime' = ScanTime(o, currentTime, lastScanTime)

\* loop(): the entrance reader, then delay(20)
Entrance(card) ==
    /\ pc = "pollIn"
    /\ IF card = NoCard
       THEN /\ millis' = millis + POLL_DELAY
            /\ UNCHANGED << lastScanTime, isInside, entryTimes, inReadyMode,
                            errorLog, errorCount, uidByte, uid, personIndex,
                            outcome, lcd, feedback, serial, appended,
                            history >>
       ELSE LET u == getUID(card)
                idx == findPersonByUID(u)
                o == EntranceOutcome(isInside, idx)
            IN /\ Dispatch("ENTRANCE", card, o, idx, u, 0)
               /\ entryTimes' = EntranceTimes(entryTimes, o, idx, now)
               /\ isInside' = EntranceInside(isInside, o, idx)
               /\ millis' = millis + TotalDuration(OutcomeFeedback(o)) + POLL_DELAY
    /\ pc' = "pollOut"
    /\ UNCHANGED << rtcState, now, currentTime, lastMinute, timeSpent >>

PollIn == \E card \in Cards \cup {NoCard} : Entrance(card)

\* loop(): the exit reader
Exit(card) ==
    /\ pc = "pollOut"
    /\ IF card = NoCard
       THEN UNCHANGED << millis, lastScanTime, isInside, entryTimes, inReadyMode,
                         errorLog, errorCount, uidByte, uid, personIndex,
                         outcome, timeSpent, lcd, feedback, serial, appended,
                         history >>
       ELSE LET u == getUID(card)
                idx == findPersonByUID(u)
                o == ExitOutcome(isInside, idx)
                spent == IF o = "ValidExit"
                         THEN TimeSpentSeconds(now, entryTimes[idx]) ELSE timeSpent
            IN /\ Dispatch("EXIT", card, o, idx, u, spent)
               /\ timeSpent' = spent
               /\ entryTimes' = ExitTimes(entryTimes, o, idx)
               /\ isInside' = ExitInside(isInside, o, idx)
               /\ millis' = millis + TotalDuration(OutcomeFeedback(o))
    /\ pc' = "reset"
    /\ UNCHANGED << rtcState, now, currentTime, lastMinute >>

PollOut == \E card \in Cards \cup {NoCard} : Exit(card)

\* loop(): back to the ready screen, then delay(10)
\* a ready screen that comes back as soon as the debounce time has passed
DisplayExpiredAtDebounce(t, last) == t - last >= DEBOUNCE_TIME

\* the test of the elapsed time with its operands the wrong way round
DisplayExpiredReversed(t, last) == last - t >= DISPLAY_TIME

DisplayExpired(t, last) == t - last >= DISPLAY_TIME

ResetDisplay ==
    /\ pc = "reset"
    /\ IF ~inReadyMode /\ DisplayExpired(currentTime, lastScanTime)
       THEN /\ lcd' = ReadyScreen(millis)
            /\ lastMinute' = Minute(RtcNow(rtcState, millis))
            /\ inReadyMode' = TRUE
       ELSE UNCHANGED << lcd, lastMinute, inReadyMode >>
    /\ millis' = millis + LOOP_DELAY
    /\ pc' = "loop"
    /\ UNCHANGED << rtcState, now, currentTime, lastScanTime, isInside,
                    entryTimes, errorLog, errorCount, uidByte, uid, personIndex,
                    outcome, timeSpent, feedback, serial, appended,
                    history >>

Next == Setup \/ LoopStart \/ PollIn \/ PollOut \/ ResetDisplay

Spec == Init /\ [][Next]_vars

TypeOK ==
    /\ pc \in {"setup", "loop", "pollIn", "pollOut", "reset"}
    /\ errorCount \in 0..INT_MAX
    /\ personIndex \in -1..(NUM_KNOWN_CARDS - 1)

(***************************************************************************)
(* SpecLive: the sketch with loop() called again and again for ever.  The  *)
(* cards come to the readers in the iterations that read the clock up to   *)
(* LiveTicks * TimeStep; once the last of them has ended the clock is read *)
(* at ClockEnd, and the iterations after that one are left out.            *)
(***************************************************************************)
\* the longest a reader keeps the sketch busy: the alarm and the red blink
LongestScan == Duration("alarmBeep") + Duration("blinkRed")

\* late enough for an iteration that read the clock at LiveTicks * TimeStep
\* to have ended
ClockEnd == LiveTicks * TimeStep + 2 * LongestScan + POLL_DELAY + LOOP_DELAY

ReadPointsLive ==
    {t \in {k * TimeStep : k \in 0..LiveTicks} \cup {ClockEnd} : t >= millis}
    \cup (IF millis - currentTime > POLL_DELAY + LOOP_DELAY
             /\ millis <= LiveTicks * TimeStep
          THEN {millis} ELSE {})

\* the cards that may be at a reader in an iteration that read the clock at t
Presented(t) == IF t <= LiveTicks * TimeStep THEN Cards ELSE {}

LoopStartLive == ReadClocks(ReadPointsLive)

PollInLive == \E card \in Presented(currentTime) \cup {NoCard} : Entrance(card)

PollOutLive == \E card \in Presented(currentTime) \cup {NoCard} : Exit(card)

NextLive == Setup \/ LoopStartLive \/ PollInLive \/ PollOutLive \/ ResetDisplay

\* loop() is called again as soon as it returns, and every statement of it
\* returns
SpecLive == Init /\ [][NextLive]_vars /\ WF_vars(NextLive)

(***************************************************************************)
(* SpecLog: logError and printErrorLog called on their own, any messages,  *)
(* in any order, up to MaxAppends appends.                                 *)
(***************************************************************************)
LogMessages == { << "RTC not found" >>, << "Double entry: ", knownNames[0] >> }

\* SpecLogLate starts LateAppends appends short of INT_MAX
LateStart == INT_MAX - LateAppends

\* the harness stops appending after MaxAppends appends, in SpecLogLate
\* after the append that found the counter at INT_MAX, and once the counter
\* is negative
CanAppend ==
    /\ errorCount >= 0
    /\ \/ errorCount = Len(appended) /\ Len(appended) < MaxAppends
       \/ errorCount >= LateStart /\ Len(appended) <= LateAppends

InitLog == pc = "log" /\ Globals

LogError(errorMessage) ==
    /\ pc = "log"
    /\ CanAppend
    /\ errorLog' = logErrorLog(errorLog, errorCount, RtcNow(rtcState, millis),
                               errorMessage)
    /\ errorCount' \in logErrorCount(errorCount)
    /\ appended' = Append(appended, LogEntry(RtcNow(rtcState, millis), errorMessage))
    /\ serial' = << "ERROR: ", errorMessage >>
    /\ UNCHANGED << pc, millis, rtcState, now, currentTime, lastScanTime,
                    lastMinute, isInside, entryTimes, inReadyMode, uidByte, uid,
                    personIndex, outcome, timeSpent, lcd, feedback,
                    history >>

LogAppend == \E m \in LogMessages : LogError(m)

PrintErrorLog ==
    /\ pc = "log"
    /\ serial' = << "=== ERROR LOG ===", printErrorLog(errorLog, errorCount),
                    "=================" >>
    /\ UNCHANGED << pc, millis, rtcState, now, currentTime, lastScanTime,
                    lastMinute, isInside, entryTimes, inReadyMode, errorLog,
                    errorCount, uidByte, uid, personIndex, outcome, timeSpent,
                    lcd, feedback, appended, history >>

NextLog == LogAppend \/ PrintErrorLog

SpecLog == InitLog /\ [][NextLog]_vars

(***************************************************************************)
(* SpecLogLate: the same two functions, started in the state SpecLog is in *)
(* after LateStart appends of the same message, with `appended` holding    *)
(* the entries stored from then on.                                        *)
(***************************************************************************)
LateEntry == LogEntry(RtcNow(rtcState, 0), << "RTC not found" >>)

InitLogLate ==
    /\ pc = "log"
    /\ millis = 0
    /\ rtcState \in RtcStates
    /\ now = 0
    /\ currentTime = 0
    /\ lastScanTime = 0
    /\ lastMinute = -1
    /\ isInside = [i \in 0..(NUM_KNOWN_CARDS - 1) |-> FALSE]
    /\ entryTimes = [i \in 0..(NUM_KNOWN_CARDS - 1) |-> 0]
    /\ inReadyMode = FALSE
    /\ errorLog = [i \in 0..(MAX_ERROR_LOG - 1) |-> LateEntry]
    /\ errorCount = LateStart
    /\ uidByte = << >>
    /\ uid = << >>
    /\ personIndex = -1
    /\ outcome = "none"
    /\ timeSpent = 0
    /\ lcd = << << >>, << >> >>
    /\ feedback = << >>
    /\ serial = << "ERROR: ", << "RTC not found" >> >>
    /\ appended = << >>
    /\ history = [entry |-> [i \in 0..(NUM_KNOWN_CARDS - 1) |-> 0],
                  exit |-> [i \in 0..(NUM_KNOWN_CARDS - 1) |-> 0],
                  last |-> [i \in 0..(NUM_KNOWN_CARDS - 1) |-> "none"]]

SpecLogLate == InitLogLate /\ [][NextLog]_vars

(***************************************************************************)
(* SpecResolve: getUID and findPersonByUID called on their own, on the     *)
(* bytes of a card and on identifiers in either case with or without a     *)
(* tail.                                                                   *)
(***************************************************************************)
LowerChar(c) ==
    CASE c = "A" -> "a" [] c = "B" -> "b" [] c = "C" -> "c"
      [] c = "D" -> "d" [] c = "E" -> "e" [] c = "F" -> "f"
      [] c = "X" -> "x"
      [] OTHER -> c

LowerCase(s) == [i \in 1..Len(s) |-> LowerChar(s[i])]

IdentifierHeads ==
    {knownUIDs[i] : i \in 0..(NUM_KNOWN_CARDS - 1)}
    \cup {LowerCase(knownUIDs[i]) : i \in 0..(NUM_KNOWN_CARDS - 1)}
    \cup { << "5", "A", "D", "a", "9", "C", "8", "0" >>,
           << "5", "A", "D", "A", "9", "C", "8" >>,
           << "5", "A", "D", "A", "9", "C", "8", "1" >>,
           << "D", "E", "A", "D", "B", "E", "E", "F" >>,
           << "d", "e", "a", "d", "b", "e", "e", "f" >>,
           << >> }

IdentifierTails ==
    { << >>, << "x", "x" >>, << "X", "X" >>, << "0" >>, << "8", "0" >>,
      << "0", "1", "0", "2", "0", "3" >>,
      << "5", "A", "D", "A", "9", "C", "8", "0" >>,
      << "5", "a", "a", "c", "5", "1", "8", "0" >> }

Identifiers == {h \o t : h \in IdentifierHeads, t \in IdentifierTails}

InitResolve == pc = "resolve" /\ Globals

\* findPersonByUID on an identifier
ResolveIdentifier ==
    /\ pc = "resolve"
    /\ \E u \in Identifiers :
          /\ uidByte' = << >>
          /\ uid' = u
          /\ personIndex' = findPersonByUID(u)
    /\ UNCHANGED << pc, millis, rtcState, now, currentTime, lastScanTime,
                    lastMinute, isInside, entryTimes, inReadyMode, errorLog,
                    errorCount, outcome, timeSpent, lcd, feedback, serial,
                    appended, history >>

\* getUID on the bytes of a card, then findPersonByUID
ResolveCard ==
    /\ pc = "resolve"
    /\ \E k \in 1..Len(CardPool) :
          /\ uidByte' = CardPool[k]
          /\ uid' = getUID(CardPool[k])
          /\ personIndex' = findPersonByUID(getUID(CardPool[k]))
    /\ UNCHANGED << pc, millis, rtcState, now, currentTime, lastScanTime,
                    lastMinute, isInside, entryTimes, inReadyMode, errorLog,
                    errorCount, outcome, timeSpent, lcd, feedback, serial,
                    appended, history >>

NextResolve == ResolveIdentifier \/ ResolveCard

SpecResolve == InitResolve /\ [][NextResolve]_vars

(***************************************************************************)
(* Properties.                                                             *)
(***************************************************************************)
Slots == 0..(NUM_KNOWN_CARDS - 1)

\* the slot of a card
SlotOf(card) == findPersonByUID(getUID(card))

\* a card has been read since the sketch started
SomeAccepted == outcome # "none"

\* C1: any two accepted scans are at least 1500 ms apart: whenever a reader
\* reads a card, at least DEBOUNCE_TIME has passed since the scan accepted
\* before it.
C1_AcceptedScansDebounced ==
    [][\A card \in Cards :
          (SomeAccepted /\ (Entrance(card) \/ Exit(card)))
             => millis - lastScanTime >= DEBOUNCE_TIME]_vars

\* C2: an iteration of loop() in which the entrance reader read a card does
\* not also read a card at the exit reader, so it yields at most one outcome.
C2_OneOutcomePerIteration ==
    [][\A card \in Cards :
          (SomeAccepted /\ Exit(card)) => lastScanTime # currentTime]_vars

\* C3: once setup() has run, a slot has an entry time exactly when its
\* inside flag is set.
C3_EntryTimeIffInside ==
    pc # "setup" => \A i \in Slots : (entryTimes[i] # 0) <=> isInside[i]

\* C4: a known card at the entrance takes the normal-entry branch and is
\* stamped with the time of the scan when its slot is outside, and takes the
\* double-entry branch, which changes no slot, when its slot is inside; a
\* slot that is inside stays inside with the same entry time until its card
\* is read at the exit.  So Entry(A), Entry(A) gives ValidEntry, DoubleEntry
\* and leaves A inside with the first entry time.
C4_DoubleEntryKeepsEntryTime ==
    [][/\ \A card \in Cards :
            (Entrance(card) /\ SlotOf(card) >= 0) =>
               IF isInside[SlotOf(card)]
               THEN /\ outcome' = "DoubleEntry"
                    /\ isInside' = isInside
                    /\ entryTimes' = entryTimes
               ELSE /\ outcome' = "ValidEntry"
                    /\ isInside'[SlotOf(card)]
                    /\ entryTimes'[SlotOf(card)] = now
       /\ \A i \in Slots :
            (isInside[i] /\ ~(\E card \in Cards : Exit(card) /\ SlotOf(card) = i))
               => isInside'[i] /\ entryTimes'[i] = entryTimes[i]]_vars

\* C4 witness: a double entry after time has passed since the entry
W4_DoubleEntryLater ==
    /\ outcome = "DoubleEntry"
    /\ personIndex >= 0
    /\ isInside[personIndex]
    /\ entryTimes[personIndex] # 0
    /\ entryTimes[personIndex] < now

\* C5: a known card at the exit whose slot is not inside takes the
\* invalid-exit branch, and no inside flag and no entry time changes.
C5_InvalidExitMutatesNothing ==
    [][\A card \in Cards :
          (Exit(card) /\ SlotOf(card) >= 0 /\ ~isInside[SlotOf(card)]) =>
             /\ outcome' = "InvalidExit"
             /\ isInside' = isInside
             /\ entryTimes' = entryTimes]_vars

W5_InvalidExit ==
    /\ outcome = "InvalidExit"
    /\ personIndex >= 0
    /\ ~isInside[personIndex]
    /\ serial[1] = "EXIT"

\* C6: the normal-entry branch stamps the slot with the time t0 of the scan,
\* the stamp stays until the card is read at the exit, and the normal-exit
\* branch at time t1 shows t1 - t0 as the time spent and leaves the slot
\* outside.
C6_DwellIsExitMinusEntry ==
    [][/\ \A card \in Cards :
            (Entrance(card) /\ SlotOf(card) >= 0 /\ ~isInside[SlotOf(card)])
               => entryTimes'[SlotOf(card)] = now
       /\ \A i \in Slots :
            (isInside[i] /\ ~(\E card \in Cards : Exit(card) /\ SlotOf(card) = i))
               => entryTimes'[i] = entryTimes[i]
       /\ \A card \in Cards :
            (Exit(card) /\ SlotOf(card) >= 0 /\ isInside[SlotOf(card)]) =>
               /\ outcome' = "ValidExit"
               /\ now >= entryTimes[SlotOf(card)]
               /\ timeSpent' = now - entryTimes[SlotOf(card)]
               /\ lcd'[2] = formatTimeSpent(now - entryTimes[SlotOf(card)])
               /\ ~isInside'[SlotOf(card)]]_vars

W6_PositiveDwell ==
    /\ outcome = "ValidExit"
    /\ personIndex >= 0
    /\ ~isInside[personIndex]
    /\ timeSpent > 0
    /\ lcd[2] = formatTimeSpent(timeSpent)

\* the presence record of a slot
Record(inside, times, i) == << inside[i], times[i] >>

\* C7: a card read at either reader changes the presence record of its own
\* slot when it takes the normal-entry or the normal-exit branch, changes no
\* record when it takes any other branch, and never changes the record of
\* another slot.
C7_OneRecordMutated ==
    [][\A card \in Cards :
          (Entrance(card) \/ Exit(card)) =>
             /\ \A j \in Slots :
                   j # SlotOf(card) =>
                      Record(isInside', entryTimes', j) = Record(isInside, entryTimes, j)
             /\ outcome' \in {"ValidEntry", "ValidExit"} =>
                   /\ SlotOf(card) >= 0
                   /\ Record(isInside', entryTimes', SlotOf(card))
                        # Record(isInside, entryTimes, SlotOf(card))
             /\ outcome' \in {"UnknownCredential", "DoubleEntry", "InvalidExit"} =>
                   /\ isInside' = isInside
                   /\ entryTimes' = entryTimes]_vars

W7_ExitWhileAnotherInside ==
    /\ outcome = "ValidExit"
    /\ personIndex >= 0
    /\ \E j \in Slots : j # personIndex /\ isInside[j]

\* C8: a card that takes the unknown-card branch (at either reader), the
\* double-entry branch or the invalid-exit branch adds exactly one entry to
\* the error log, a card that takes the normal-entry or normal-exit branch
\* adds none, and after setup() nothing else adds or removes an entry.
C8_ErrorOutcomesLoggedOnce ==
    [][pc # "setup" =>
          IF \E card \in Cards : Entrance(card) \/ Exit(card)
          THEN IF outcome' \in {"UnknownCredential", "DoubleEntry", "InvalidExit"}
               THEN /\ errorCount' = errorCount + 1
                    /\ Len(appended') = Len(appended) + 1
               ELSE /\ outcome' \in {"ValidEntry", "ValidExit"}
                    /\ errorCount' = errorCount
                    /\ appended' = appended
          ELSE errorCount' = errorCount /\ appended' = appended]_vars

W8_UnknownAtExitLogged ==
    /\ outcome = "UnknownCredential"
    /\ serial[1] = "EXIT"
    /\ errorCount >= 2
    /\ appended[Len(appended)][3] = << "Unknown card at exit: ", uid >>

\* the last k elements of a sequence
LastN(seq, k) == SubSeq(seq, Len(seq) - k + 1, Len(seq))

\* C9: after n appends printErrorLog prints exactly the last min(n, 10)
\* entries appended, oldest first.
C9_SnapshotIsLastTen ==
    (Len(serial) = 3 /\ serial[1] = "=== ERROR LOG ===") =>
        serial[2] = LastN(appended, Min(Len(appended), MAX_ERROR_LOG))

W9_FifteenAppends ==
    /\ Len(serial) = 3
    /\ serial[1] = "=== ERROR LOG ==="
    /\ Len(appended) = 15
    /\ Len(serial[2]) = MAX_ERROR_LOG
    /\ serial[2][1] # serial[2][2]

\* u begins with the identifier k, character for character
HasPrefix(u, k) == Len(u) >= Len(k) /\ \A n \in 1..Len(k) : u[n] = k[n]

\* u begins with the identifier k when case is ignored
HasPrefixNoCase(u, k) ==
    Len(u) >= Len(k) /\ \A n \in 1..Len(k) : UpperChar(u[n]) = UpperChar(k[n])

UpperHexDigits == << "0", "1", "2", "3", "4", "5", "6", "7",
                     "8", "9", "A", "B", "C", "D", "E", "F" >>

\* the bytes in upper-case hexadecimal, two characters a byte
RECURSIVE CardHex(_)
CardHex(bytes) ==
    IF bytes = << >> THEN << >>
    ELSE << UpperHexDigits[(Head(bytes) \div 16) + 1],
            UpperHexDigits[(Head(bytes) % 16) + 1] >> \o CardHex(Tail(bytes))

Resolved == uid # << >> \/ uidByte # << >>

\* C10 as stated: resolution ignores case and looks at the first eight
\* characters only: an identifier that begins with a configured identifier
\* in either case resolves to its slot, any other identifier to none.
C10_ResolveIgnoresCase ==
    Resolved =>
       /\ \A i \in Slots : HasPrefixNoCase(uid, knownUIDs[i]) => personIndex = i
       /\ (\A i \in Slots : ~HasPrefixNoCase(uid, knownUIDs[i])) => personIndex = -1

\* C10 amended: resolution looks at the first eight characters only and
\* compares them as they are: an identifier that begins with a configured
\* identifier, character for character, resolves to its slot, any other
\* identifier to none; the identifier of a card is its bytes in upper-case
\* hexadecimal.
C10_ResolveExactPrefix ==
    Resolved =>
       /\ \A i \in Slots : HasPrefix(uid, knownUIDs[i]) => personIndex = i
       /\ (\A i \in Slots : ~HasPrefix(uid, knownUIDs[i])) => personIndex = -1
       /\ uidByte # << >> => uid = CardHex(uidByte)

W10_LongIdentifierResolved ==
    /\ Len(uid) > UID_PREFIX
    /\ HasPrefix(uid, knownUIDs[0])
    /\ personIndex = 0

\* a step of loop() in which a reader reads a card
CardRead == \E card \in Cards : Entrance(card) \/ Exit(card)

\* C11: a step of loop() in which no reader reads a card leaves the inside
\* flags, the entry times, the error log with its count and lastScanTime as
\* they are, and an iteration that finds less than DEBOUNCE_TIME since
\* lastScanTime goes past both readers without polling them.
C11_IdleIterationChangesNothing ==
    [][(pc # "setup" /\ ~CardRead) =>
          /\ UNCHANGED << isInside, entryTimes, errorLog, errorCount, appended,
                          lastScanTime >>
          /\ (pc = "loop" /\ currentTime' - lastScanTime < DEBOUNCE_TIME)
                => pc' = "reset"
          /\ pc' \in {"pollIn", "pollOut"}
                => currentTime' - lastScanTime >= DEBOUNCE_TIME]_vars

\* an iteration that found the gate closed has ended
W11_GateClosedIteration ==
    /\ pc = "loop"
    /\ SomeAccepted
    /\ currentTime > lastScanTime
    /\ currentTime - lastScanTime < DEBOUNCE_TIME

\* C12: a card read takes the display out of the ready screen and restarts
\* the count from the iteration's clock reading, and the ready screen is put
\* back only by an iteration that read the clock at least DISPLAY_TIME after
\* lastScanTime.
C12_ReadyOnlyAfterDisplayTime ==
    [][/\ CardRead =>
             /\ ~inReadyMode'
             /\ lcd'[1] # << "Ready to Scan" >>
             /\ lastScanTime' = currentTime
       /\ (pc # "setup" /\ ~inReadyMode /\ inReadyMode') =>
             /\ currentTime - lastScanTime >= DISPLAY_TIME
             /\ lcd'[1] = << "Ready to Scan" >>
       /\ (pc # "setup" /\ lcd[1] # << "Ready to Scan" >>
              /\ lcd'[1] = << "Ready to Scan" >>) =>
             currentTime - lastScanTime >= DISPLAY_TIME]_vars

\* the ready screen is back after a card was read
W12_ReadyRestored ==
    /\ pc = "loop"
    /\ SomeAccepted
    /\ inReadyMode
    /\ lcd[1] = << "Ready to Scan" >>
    /\ currentTime - lastScanTime >= DISPLAY_TIME

\* the cards read so far: each was a normal entry, a normal exit, or logged
RECURSIVE SumOver(_, _)
SumOver(f, S) ==
    IF S = {} THEN 0
    ELSE LET i == CHOOSE j \in S : TRUE IN f[i] + SumOver(f, S \ {i})

CardsRead ==
    SumOver(history.entry, Slots) + SumOver(history.exit, Slots)
    + Len(SelectSeq(appended, LAMBDA e : e[3][1] \notin {"RTC not found",
                                                          "RTC lost power"}))

\* C13: under SpecLive, whenever a card has been read and the display is
\* not the ready screen, either another card is read later or the sketch
\* gets back to the ready screen with inReadyMode true.
C13_EventuallyReady ==
    \A n \in 1..(2 * LiveTicks + 2) :
       (SomeAccepted /\ ~inReadyMode /\ CardsRead = n)
          ~> \/ inReadyMode /\ lcd[1] = << "Ready to Scan" >>
             \/ CardsRead > n

\* the ready screen is back after an alarm, in the last iteration modelled
W13_ReadyAfterAlarm ==
    /\ pc = "loop"
    /\ inReadyMode
    /\ outcome \in {"DoubleEntry", "InvalidExit"}
    /\ currentTime = ClockEnd

\* C14: when the branch a slot's card took last is the double-entry alarm,
\* its next card at the entrance takes the double-entry alarm again and its
\* next card at the exit takes the normal exit; when it is the invalid-exit
\* alarm, its next card at the exit takes the invalid-exit alarm again and
\* its next card at the entrance takes the normal entry.  The cards of other
\* slots and unknown cards read in between leave this as it is.
C14_ClearedOnlyByComplementaryScan ==
    [][\A card \in Cards :
          SlotOf(card) >= 0 =>
             /\ (Entrance(card) /\ history.last[SlotOf(card)] = "DoubleEntry")
                   => outcome' = "DoubleEntry"
             /\ (Exit(card) /\ history.last[SlotOf(card)] = "DoubleEntry")
                   => outcome' = "ValidExit"
             /\ (Exit(card) /\ history.last[SlotOf(card)] = "InvalidExit")
                   => outcome' = "InvalidExit"
             /\ (Entrance(card) /\ history.last[SlotOf(card)] = "InvalidExit")
                   => outcome' = "ValidEntry"]_vars

\* a slot's card has taken the invalid-exit alarm twice running, with an
\* unknown card read in between
W14_InvalidExitAgain ==
    /\ outcome = "InvalidExit"
    /\ Len(appended) >= 3
    /\ appended[Len(appended)][3] = << "Invalid exit: ", knownNames[personIndex] >>
    /\ appended[Len(appended) - 1][3][1] = "Unknown card: "
    /\ appended[Len(appended) - 2][3] = << "Invalid exit: ", knownNames[personIndex] >>

\* C15: when rtc.begin() fails, setup() stores exactly one entry in the
\* error log, sounds the error tone and blinks red, and goes on: it resets
\* the inside flags and entry times, shows the ready screen and hands over
\* to loop(), which polls the readers and classifies the cards as ever.
C15_StartsWithoutClock ==
    [][rtcState = "absent" =>
          /\ pc = "setup" =>
                /\ appended' = << LogEntry(RtcAbsent, << "RTC not found" >>) >>
                /\ errorCount' = 1
                /\ errorLog'[0] = LogEntry(RtcAbsent, << "RTC not found" >>)
                /\ \A i \in 1..(MAX_ERROR_LOG - 1) : errorLog'[i] = << >>
                /\ feedback' = << "errorBeep", "blinkRed", "startupBeep" >>
                /\ \A i \in Slots : ~isInside'[i] /\ entryTimes'[i] = 0
                /\ inReadyMode'
                /\ lcd'[1] = << "Ready to Scan" >>
                /\ pc' = "loop"
          /\ (pc = "loop" /\ ~SomeAccepted) => pc' = "pollIn"
          /\ \A card \in Cards :
                /\ Entrance(card) =>
                      outcome' = IF SlotOf(card) < 0 THEN "UnknownCredential"
                                 ELSE IF isInside[SlotOf(card)] THEN "DoubleEntry"
                                 ELSE "ValidEntry"
                /\ Exit(card) =>
                      outcome' = IF SlotOf(card) < 0 THEN "UnknownCredential"
                                 ELSE IF isInside[SlotOf(card)] THEN "ValidExit"
                                 ELSE "InvalidExit"]_vars

\* without a clock, a card has been let in and out again
W15_ExitWithoutClock ==
    /\ rtcState = "absent"
    /\ outcome = "ValidExit"
    /\ errorCount = 1
    /\ ~isInside[personIndex]

\* the functions a sequence of calls names
Called(fs) == {fs[k] : k \in 1..Len(fs)}

\* C16: a card read sounds and blinks what its branch prescribes: normal
\* entry the success tone and green, normal exit the exit tone and green, an
\* unknown card at either reader the unknown tone and red, double entry and
\* invalid exit the alarm tone and red; never green and red together, and
\* never green when no inside flag and no entry time changed.
C16_FeedbackOfOutcome ==
    [][\A card \in Cards :
          /\ Entrance(card) =>
                /\ outcome' = IF SlotOf(card) < 0 THEN "UnknownCredential"
                              ELSE IF isInside[SlotOf(card)] THEN "DoubleEntry"
                              ELSE "ValidEntry"
                /\ feedback' = IF SlotOf(card) < 0 THEN << "unknownBeep", "blinkRed" >>
                               ELSE IF isInside[SlotOf(card)] THEN << "alarmBeep", "blinkRed" >>
                               ELSE << "successBeep", "blinkGreen" >>
          /\ Exit(card) =>
                /\ outcome' = IF SlotOf(card) < 0 THEN "UnknownCredential"
                              ELSE IF isInside[SlotOf(card)] THEN "ValidExit"
                              ELSE "InvalidExit"
                /\ feedback' = IF SlotOf(card) < 0 THEN << "unknownBeep", "blinkRed" >>
                               ELSE IF isInside[SlotOf(card)] THEN << "exitBeep", "blinkGreen" >>
                               ELSE << "alarmBeep", "blinkRed" >>
          /\ (Entrance(card) \/ Exit(card)) =>
                /\ ~({"blinkGreen", "blinkRed"} \subseteq Called(feedback'))
                /\ (isInside' = isInside /\ entryTimes' = entryTimes)
                      => "blinkGreen" \notin Called(feedback')]_vars

\* the exit reader has raised the invalid-exit alarm
W16_InvalidExitAlarm ==
    /\ pc = "reset"
    /\ outcome = "InvalidExit"
    /\ feedback = << "alarmBeep", "blinkRed" >>
    /\ serial[1] = "EXIT"

\* C17: a call of logError writes the entry at position errorCount % 10, a
\* position within 0..9, and then adds exactly one to errorCount; no step
\* lowers errorCount.
C17_CounterCountsAppends ==
    [][/\ appended' # appended =>
             /\ LogSlot(errorCount) \in 0..(MAX_ERROR_LOG - 1)
             /\ errorLog' = [errorLog EXCEPT ![errorCount % MAX_ERROR_LOG] =
                                               appended'[Len(appended')]]
             /\ errorCount' = errorCount + 1
       /\ errorCount' >= errorCount]_vars

\* C18: setup() leaves every inside flag false, every entry time zero and
\* the ready screen on the display; the first iteration of loop() finds
\* them so and the gate open, and the card it reads first, at either
\* reader, is accepted.
C18_FirstIterationAcceptsCards ==
    [][/\ pc = "setup" =>
             /\ \A i \in Slots : ~isInside'[i] /\ entryTimes'[i] = 0
             /\ inReadyMode'
             /\ lcd'[1] = << "Ready to Scan" >>
             /\ pc' = "loop"
       /\ (pc = "loop" /\ currentTime = 0) =>
             /\ \A i \in Slots : ~isInside[i] /\ entryTimes[i] = 0
             /\ inReadyMode
             /\ currentTime' - lastScanTime >= DEBOUNCE_TIME
             /\ pc' = "pollIn"
       /\ \A card \in Cards :
             (~SomeAccepted /\ (Entrance(card) \/ Exit(card))) =>
                /\ outcome' \in {"ValidEntry", "InvalidExit", "UnknownCredential"}
                /\ uidByte' = card
                /\ lastScanTime' = currentTime]_vars

\* the first iteration after a normal start has read a card at the exit
W18_FirstCardAtExit ==
    /\ rtcState = "ok"
    /\ pc = "reset"
    /\ outcome = "InvalidExit"
    /\ Len(appended) = 1
    /\ history.last = [i \in Slots |-> IF i = personIndex THEN "InvalidExit" ELSE "none"]
    /\ lastScanTime = 100 + Duration("startupBeep") + SETUP_DELAY

\* C19: an iteration that starts while a result is on the display leaves
\* the display and lastMinute as they are, whatever the minute; one that
\* starts in ready mode rewrites the clock line exactly when the minute
\* differs from lastMinute; and when an iteration ends in ready mode the
\* minute on the display is lastMinute, the minute of the clock reading made
\* last (at the start of the iteration, or by showReadyScreen).
C19_ClockLineOnlyInReadyMode ==
    [][/\ (pc = "loop" /\ ~inReadyMode) =>
             lcd' = lcd /\ lastMinute' = lastMinute
       /\ (pc = "loop" /\ inReadyMode) =>
             /\ lcd'[1] = lcd[1]
             /\ lcd'[2] = IF Minute(now') # lastMinute
                          THEN << "HH:MM", Hour(now'), Minute(now') >>
                          ELSE lcd[2]
             /\ lastMinute' = Minute(now')
       /\ (pc = "reset" /\ inReadyMode') =>
             /\ lcd'[1] = << "Ready to Scan" >>
             /\ lcd'[2][3] = lastMinute'
             /\ lastMinute' = Minute(IF inReadyMode THEN now
                                     ELSE RtcNow(rtcState, millis))]_vars

\* the minute has changed while a result is on the display
W19_MinuteChangedWhilePresenting ==
    /\ pc \in {"pollIn", "reset"}
    /\ ~inReadyMode
    /\ lcd[1] # << "Ready to Scan" >>
    /\ Minute(now) # lastMinute

\* C20: for every slot the normal entries and normal exits alternate,
\* starting with an entry: the exits counted so far never exceed the
\* entries, the entries exceed the exits by at most one, and the inside flag
\* is set exactly when they exceed them by one.
C20_ValidOutcomesAlternate ==
    \A i \in Slots :
       /\ history.entry[i] - history.exit[i] \in {0, 1}
       /\ isInside[i] <=> (history.entry[i] = history.exit[i] + 1)

\* a slot has come in, gone out and come in again
W20_SecondEntry ==
    \E i \in Slots :
       /\ history.entry[i] = 2
       /\ history.exit[i] = 1
       /\ isInside[i]
       /\ history.last[i] = "ValidEntry"

\* C21: every card read, whatever its branch, sets lastScanTime to
\* currentTime, the clock reading made at the start of the iteration; only
\* the start of an iteration writes currentTime, and no other step writes
\* lastScanTime.
C21_LastScanTimeIsIterationStart ==
    [][/\ \A card \in Cards :
             (Entrance(card) \/ Exit(card)) =>
                /\ lastScanTime' = currentTime
                /\ currentTime' = currentTime
       /\ pc # "loop" => currentTime' = currentTime
       /\ lastScanTime' # lastScanTime => CardRead]_vars

\* an unknown card at the exit, read after the entrance reader had read a
\* card in the same iteration, has set lastScanTime
W21_UnknownAtExitSetsScanTime ==
    /\ pc = "reset"
    /\ outcome = "UnknownCredential"
    /\ serial[1] = "EXIT"
    /\ lastScanTime = currentTime
    /\ millis - currentTime > TotalDuration(OutcomeFeedback("UnknownCredential"))
                              + POLL_DELAY

\* C22: the entry a card read stores in the error log carries the time the
\* display and the trace line of that card carry, the RTC reading made at
\* the start of the iteration, whether the card is unknown or raises the
\* double-entry or the invalid-exit alarm.
C22_LogTimeIsEventTime ==
    [][\A card \in Cards :
          ((Entrance(card) \/ Exit(card)) /\ appended' # appended) =>
             /\ appended'[Len(appended')][1]
                   = << "Y/M/D H:M:S", Day(now), Hour(now), Minute(now), Second(now) >>
             /\ appended'[Len(appended')][1] = serial'[7]]_vars

====
